---- MODULE Spec2Model ----
(***************************************************************************)
(* Model of DiverseSelector/distance.py: the metric dispatcher             *)
(* compute_distance_matrix, the pairwise engine pairwise_similarity_bit,   *)
(* the scalar bit-vector metrics and nearest_average_tanimoto.             *)
(*                                                                         *)
(* Indices are 0-based as in the source: a feature matrix is a function    *)
(* 0..N-1 -> row, a row a function 0..D-1 -> {0,1}.  Python lists that are *)
(* only appended to (pair_simi, tani) are sequences.                       *)
(*                                                                         *)
(* Numbers.  A float produced by a division is kept as the exact reduced   *)
(* fraction [num, den]; the float the source returns is that fraction      *)
(* rounded to a double.  x ** 0.5 is kept as [sqrt |-> x], the square root *)
(* of the integer x, and compared through squares.  numpy's 0/0 is         *)
(* [nan |-> TRUE] and k/0 (k > 0) is [inf |-> TRUE]; a Python int division *)
(* by zero is the outcome ZeroDivisionError.                               *)
(***************************************************************************)
EXTENDS Integers, Sequences, FiniteSets, TLC

\* ------------------------------------------------------------- bounds
\* Feature matrices have 2..MaxN rows of 1..MaxD bits and at most MaxCells
\* entries.
MaxN == 4
MaxD == 3
MaxCells == 9

\* The sentinel of nearest_average_tanimoto ("short = 100").
Sentinel == 100

\* ------------------------------------------------------------- numbers
RECURSIVE GCD(_, _)
GCD(m, n) == IF n = 0 THEN m ELSE GCD(n, m % n)

Abs(n) == IF n < 0 THEN -n ELSE n

\* The reduced fraction n/d, d # 0.
Frac(n, d) ==
  LET g == GCD(Abs(n), Abs(d))
      s == IF d < 0 THEN -1 ELSE 1
  IN  [num |-> s * (n \div g), den |-> s * (d \div g)]

IntVal(n) == [num |-> n, den |-> 1]
NaN == [nan |-> TRUE]
Inf == [inf |-> TRUE]

IsFrac(v) == DOMAIN v = {"num", "den"}
IsSqrt(v) == DOMAIN v = {"sqrt"}
IsNaN(v) == DOMAIN v = {"nan"}
IsInf(v) == DOMAIN v = {"inf"}

\* Outcomes of a call: a returned value or a raised exception.
Ok(v) == [kind |-> "ok", value |-> v]
ZeroDivisionError == [kind |-> "ZeroDivisionError"]
TypeError == [kind |-> "TypeError"]
ValueError(msg) == [kind |-> "ValueError", message |-> msg]
IsOk(r) == r.kind = "ok"

\* Float arithmetic on exact fractions; NaN is absorbing.
FAdd(u, v) ==
  IF IsNaN(u) \/ IsNaN(v) THEN NaN
  ELSE IF IsFrac(u) /\ u.num = 0 THEN v
  ELSE IF IsFrac(v) /\ v.num = 0 THEN u
  ELSE IF IsInf(u) \/ IsInf(v) THEN Inf
  ELSE Frac(u.num * v.den + v.num * u.den, u.den * v.den)

FSub(u, v) ==
  IF IsNaN(u) \/ IsNaN(v) THEN NaN
  ELSE IF IsInf(u) \/ IsInf(v) THEN Inf
  ELSE Frac(u.num * v.den - v.num * u.den, u.den * v.den)

FMul(u, v) ==
  IF IsNaN(u) \/ IsNaN(v) THEN NaN
  ELSE IF IsInf(u) \/ IsInf(v)
    THEN (IF (IsFrac(u) /\ u.num = 0) \/ (IsFrac(v) /\ v.num = 0) THEN NaN ELSE Inf)
  ELSE Frac(u.num * v.num, u.den * v.den)

\* u / k for a non-zero Python int k.
FDivInt(u, k) ==
  IF IsNaN(u) THEN NaN
  ELSE IF IsInf(u) THEN Inf
  ELSE Frac(u.num, u.den * k)

\* numpy true division of two non-negative integer scalars: no exception,
\* 0/0 is nan and k/0 is inf (a RuntimeWarning only).
np_true_divide(n, d) ==
  IF d # 0 THEN Frac(n, d)
  ELSE IF n = 0 THEN NaN ELSE Inf

\* Mutant of py_true_divide: a guard that returns 0 on a zero divisor.
py_true_divide_guarded(n, d) ==
  IF d = 0 THEN Ok(IntVal(0)) ELSE Ok(Frac(n, d))

\* Python true division of two ints: raises on a zero divisor.
py_true_divide(n, d) ==
  IF d = 0 THEN ZeroDivisionError ELSE Ok(Frac(n, d))

\* The square of a non-negative value, as a fraction [num, den].
SquareOf(v) ==
  IF IsSqrt(v) THEN IntVal(v.sqrt) ELSE Frac(v.num * v.num, v.den * v.den)

\* u < v for non-negative finite values (squaring is monotone there).
FLess(u, v) ==
  LET p == SquareOf(u)
      q == SquareOf(v)
  IN  p.num * q.den < q.num * p.den

\* ------------------------------------------------------- vector helpers
len(a) == Cardinality(DOMAIN a)

count_nonzero(a) == Cardinality({k \in DOMAIN a : a[k] # 0})

\* The loop "for idx: if a[idx] == b[idx] and a[idx] != 0: c += 1".
intersection_count(a, b) ==
  Cardinality({idx \in DOMAIN a : a[idx] = b[idx] /\ a[idx] # 0})

\* Python's sum() over the elementwise array f, indices 0..n-1.
RECURSIVE sum(_, _)
sum(f, n) == IF n = 0 THEN 0 ELSE sum(f, n - 1) + f[n - 1]

\* ------------------------------------------------------- scalar metrics
euc_bit(a, b) ==
  LET a_feat == count_nonzero(a)
      b_feat == count_nonzero(b)
      c == intersection_count(a, b)
  IN  [sqrt |-> a_feat + b_feat - (2 * c)]

tanimoto(a, b) ==
  LET ab == sum([k \in DOMAIN a |-> a[k] * b[k]], len(a))
      aa == sum([k \in DOMAIN a |-> a[k] * a[k]], len(a))
      bb == sum([k \in DOMAIN b |-> b[k] * b[k]], len(b))
  IN  np_true_divide(ab, aa + bb - ab)

\* Mutant of bit_tanimoto_denominator: the "2 * c" of euc_bit.
bit_tanimoto_denominator_twice_c(a, b) ==
  count_nonzero(a) + count_nonzero(b) - (2 * intersection_count(a, b))

bit_tanimoto_denominator(a, b) ==
  count_nonzero(a) + count_nonzero(b) - intersection_count(a, b)

bit_tanimoto(a, b) ==
  py_true_divide(intersection_count(a, b), bit_tanimoto_denominator(a, b))

mt_n_11(a, b) == sum([k \in DOMAIN a |-> a[k] * b[k]], len(a))

\* Mutant of mt_n_00: the complement taken of a only.
mt_n_00_one_complement(a, b) == sum([k \in DOMAIN a |-> (1 - a[k]) * b[k]], len(a))

mt_n_00(a, b) == sum([k \in DOMAIN a |-> (1 - a[k]) * (1 - b[k])], len(a))

mt_t_1(a, b) ==
  LET n == len(a)
      n_11 == mt_n_11(a, b)
      n_00 == mt_n_00(a, b)
  IN  IF n_00 = n THEN IntVal(1) ELSE np_true_divide(n_11, n - n_00)

\* Mutant of mt_t_0: the n_11 == n branch dropped.
mt_t_0_unguarded(a, b) ==
  np_true_divide(mt_n_00(a, b), len(a) - mt_n_11(a, b))

mt_t_0(a, b) ==
  LET n == len(a)
      n_11 == mt_n_11(a, b)
      n_00 == mt_n_00(a, b)
  IN  IF n_11 = n THEN IntVal(1) ELSE np_true_divide(n_00, n - n_11)

mt_p(a, b) ==
  LET n == len(a)
  IN  np_true_divide((n - mt_n_00(a, b)) + mt_n_11(a, b), 2 * n)

modified_tanimoto(a, b) ==
  LET p == mt_p(a, b)
      t_1 == mt_t_1(a, b)
      t_0 == mt_t_0(a, b)
  IN  FAdd(FMul(FDivInt(FSub(IntVal(2), p), 3), t_1),
           FMul(FDivInt(FAdd(IntVal(1), p), 3), t_0))

\* ------------------------------------------------------ callable inputs
\* A caller-supplied pair metric that tells its two arguments apart.
weighted_counts(a, b) == IntVal(2 * count_nonzero(a) + count_nonzero(b))

\* The outcome of metric_fn(a, b) for a callable named fn.
CallPair(fn, a, b) ==
  CASE fn = "tanimoto" -> Ok(tanimoto(a, b))
    [] fn = "bit_tanimoto" -> bit_tanimoto(a, b)
    [] fn = "modified_tanimoto" -> Ok(modified_tanimoto(a, b))
    [] fn = "euc_bit" -> Ok(euc_bit(a, b))
    [] fn = "weighted_counts" -> Ok(weighted_counts(a, b))

\* One entry of the call log: the callee and, per positional argument, the
\* row indices of the feature matrix that the argument holds.
PairCall(fn, i, j) == [fn |-> fn, args |-> << <<i>>, <<j>> >>]

RECURSIVE RowIndices(_)
RowIndices(n) == IF n = 0 THEN <<>> ELSE Append(RowIndices(n - 1), n - 1)

WholeCall(fn, x) == [fn |-> fn, args |-> << RowIndices(len(x)) >>]

\* ------------------------------------------------ pairwise_similarity_bit
\* The index pairs visited by "for i in range(0, size): for j in
\* range(i + 1, size)", in loop order.
RECURSIVE inner_loop(_, _, _)
inner_loop(i, j, size) ==
  IF j >= size THEN <<>> ELSE << <<i, j>> >> \o inner_loop(i, j + 1, size)

RECURSIVE outer_loop(_, _)
outer_loop(i, size) ==
  IF i >= size THEN <<>> ELSE inner_loop(i, i + 1, size) \o outer_loop(i + 1, size)

pair_loop(size) == outer_loop(0, size)

\* scipy's squareform on a condensed vector X (1-based sequence): the d x d
\* matrix with zero diagonal and X[k] at [i][j] and [j][i] of the k-th pair.
condensed_index(i, j, d) == d * i - ((i * (i + 1)) \div 2) + (j - i - 1) + 1

squareform(X) ==
  LET d == CHOOSE k \in 1..(2 * Len(X) + 1) : k * (k - 1) = 2 * Len(X)
  IN  [i \in 0..(d - 1) |->
        [j \in 0..(d - 1) |->
          IF i = j THEN IntVal(0)
          ELSE IF i < j THEN X[condensed_index(i, j, d)]
          ELSE X[condensed_index(j, i, d)]]]

\* Mutant of identity: the diagonal left at zero.
identity_zero_diagonal(size) ==
  [i \in 0..(size - 1) |-> [j \in 0..(size - 1) |-> IntVal(0)]]

identity(size) ==
  [i \in 0..(size - 1) |-> [j \in 0..(size - 1) |-> IF i = j THEN IntVal(1) ELSE IntVal(0)]]

matrix_add(A, B) ==
  [i \in DOMAIN A |-> [j \in DOMAIN A[i] |-> FAdd(A[i][j], B[i][j])]]

\* The run of pairwise_similarity_bit(feature, metric): the calls made, in
\* order, and the outcome.  A call that raises ends the loop.
psb_run(feature, fn) ==
  LET size == len(feature)
      pairs == pair_loop(size)
      out == [k \in 1..Len(pairs) |-> CallPair(fn, feature[pairs[k][1]], feature[pairs[k][2]])]
      bad == {k \in 1..Len(pairs) : ~IsOk(out[k])}
      last == IF bad = {} THEN Len(pairs) ELSE CHOOSE k \in bad : \A m \in bad : k <= m
      pair_simi == [k \in 1..Len(pairs) |-> out[k].value]
  IN  [calls |-> [k \in 1..last |-> PairCall(fn, pairs[k][1], pairs[k][2])],
       result |-> IF bad = {} THEN Ok(matrix_add(squareform(pair_simi), identity(size)))
                  ELSE out[last]]

pairwise_similarity_bit(feature, fn) == psb_run(feature, fn).result

\* ------------------------------------------------ compute_distance_matrix
\* DiverseSelector.utils.sklearn_supported_metrics (not in src/): the
\* general-purpose names the specification lists.
sklearn_supported_metrics == {"euclidean", "cosine", "manhattan"}

built_in_metrics == {"tanimoto", "modified_tanimoto"}

function_dict(name) ==
  CASE name = "tanimoto" -> "tanimoto"
    [] name = "modified_tanimoto" -> "modified_tanimoto"

\* sklearn's pairwise_distances, an external backend: its result is kept
\* uninterpreted, as the call that produced it (n_jobs and
\* force_all_finite at their defaults).
pairwise_distances(X, name) ==
  [backend |-> "pairwise_distances", X |-> X, Y |-> "None", metric |-> name,
   n_jobs |-> -1, force_all_finite |-> TRUE]

\* Calling a function of two required positional parameters (a, b) with the
\* single argument features: Python raises TypeError before the body runs.
call_one_argument(fn, x) == TypeError

unsupported_message(name) == "Metric " \o name \o " is not supported by the library."

\* Mutant of cdm_run: no raise, an unknown name goes to the backend.
cdm_run_no_raise(x, name) ==
  IF name \in built_in_metrics
    THEN [calls |-> << WholeCall(function_dict(name), x) >>,
          result |-> call_one_argument(function_dict(name), x)]
  ELSE [calls |-> << WholeCall("pairwise_distances", x) >>,
        result |-> Ok(pairwise_distances(x, name))]

cdm_run(x, name) ==
  IF name \in sklearn_supported_metrics
    THEN [calls |-> << WholeCall("pairwise_distances", x) >>,
          result |-> Ok(pairwise_distances(x, name))]
  ELSE IF name \in built_in_metrics
    THEN [calls |-> << WholeCall(function_dict(name), x) >>,
          result |-> call_one_argument(function_dict(name), x)]
  ELSE [calls |-> <<>>, result |-> ValueError(unsupported_message(name))]

compute_distance_matrix(x, name) == cdm_run(x, name).result

\* ----------------------------------------------- nearest_average_tanimoto
\* Rows long enough for two bit vectors to be Sentinel apart: D with
\* sqrt(D) = Sentinel.
BigD == Sentinel * Sentinel

BigRows ==
  { [k \in 0..(BigD - 1) |-> 0],
    [k \in 0..(BigD - 1) |-> 1],
    [k \in 0..(BigD - 1) |-> IF 2 * k < BigD THEN 1 ELSE 0] }

\* euc_bit and bit_tanimoto on the rows of a feature matrix.  On the long
\* rows the value is read from the table of the same function over BigRows,
\* which is evaluated once; the values are those of euc_bit and bit_tanimoto.
BigEucBit == [a \in BigRows |-> [b \in BigRows |-> euc_bit(a, b)]]

BigBitTanimoto == [a \in BigRows |-> [b \in BigRows |-> bit_tanimoto(a, b)]]

euc_bit_rows(a, b) == IF len(a) = BigD THEN BigEucBit[a][b] ELSE euc_bit(a, b)

bit_tanimoto_rows(a, b) ==
  IF len(a) = BigD THEN BigBitTanimoto[a][b] ELSE bit_tanimoto(a, b)

\* The inner loop over jdx for row idx, from jdx on, with the loop
\* variables st = [short, a, b].
RECURSIVE nearest_scan(_, _, _, _)
nearest_scan(x, idx, jdx, st) ==
  IF jdx >= len(x) THEN st
  ELSE nearest_scan(x, idx, jdx + 1,
         IF FLess(euc_bit_rows(x[idx], x[jdx]), st.short) /\ idx # jdx
           THEN [short |-> euc_bit_rows(x[idx], x[jdx]), a |-> idx, b |-> jdx]
           ELSE st)

\* Mutant of nearest_pair: the scan seeded above every distance.
nearest_pair_large_seed(x, idx) ==
  nearest_scan(x, idx, 0, [short |-> IntVal(Sentinel * Sentinel), a |-> 0, b |-> 0])

\* The pair (a, b) left by the scan of row idx.
nearest_pair(x, idx) ==
  nearest_scan(x, idx, 0, [short |-> IntVal(Sentinel), a |-> 0, b |-> 0])

RECURSIVE fsum(_, _)
fsum(s, n) == IF n = 0 THEN IntVal(0) ELSE FAdd(fsum(s, n - 1), s[n])

\* np.average of a non-empty list of floats.
average(s) == FDivInt(fsum(s, Len(s)), Len(s))

nat_run(x) ==
  LET size == len(x)
      sel == [k \in 1..size |-> nearest_pair(x, k - 1)]
      out == [k \in 1..size |-> bit_tanimoto_rows(x[sel[k].a], x[sel[k].b])]
      bad == {k \in 1..size : ~IsOk(out[k])}
      last == IF bad = {} THEN size ELSE CHOOSE k \in bad : \A m \in bad : k <= m
      tani == [k \in 1..size |-> out[k].value]
  IN  [calls |-> [k \in 1..last |-> PairCall("bit_tanimoto", sel[k].a, sel[k].b)],
       result |-> IF bad = {} THEN Ok(average(tani)) ELSE out[last]]

nearest_average_tanimoto(x) == nat_run(x).result

\* ------------------------------------------------------------- inputs
Bits == {0, 1}

Shapes ==
  {s \in (2..MaxN) \X (1..MaxD) : s[1] * s[2] <= MaxCells}

Matrices ==
  UNION {[0..(s[1] - 1) -> [0..(s[2] - 1) -> Bits]] : s \in Shapes}

\* Two vectors of equal length, as the rows of a 2-row matrix.
VectorPairs == UNION {[0..1 -> [0..(d - 1) -> Bits]] : d \in 1..MaxD}

BigMatrices == UNION {[0..(n - 1) -> BigRows] : n \in 2..MaxN}

MetricNames ==
  sklearn_supported_metrics \cup built_in_metrics \cup {"not_a_real_metric", "bit_tanimoto"}

PairMetrics ==
  {"tanimoto", "bit_tanimoto", "modified_tanimoto", "euc_bit", "weighted_counts"}

\* ------------------------------------------------------------- state
\* op: the function called ("none" before the call); features, metric: its
\* arguments; calls: the callees it invoked, in order; result: its outcome.
VARIABLES op, features, metric, calls, result

vars == <<op, features, metric, calls, result>>

Init ==
  /\ op = "none"
  /\ features = <<>>
  /\ metric = ""
  /\ calls = <<>>
  /\ result = [kind |-> "none"]

Call_compute_distance_matrix ==
  /\ op = "none"
  /\ \E x \in Matrices, name \in MetricNames :
       /\ op' = "compute_distance_matrix"
       /\ features' = x
       /\ metric' = name
       /\ calls' = cdm_run(x, name).calls
       /\ result' = compute_distance_matrix(x, name)

Call_pairwise_similarity_bit ==
  /\ op = "none"
  /\ \E x \in Matrices, fn \in PairMetrics :
       /\ op' = "pairwise_similarity_bit"
       /\ features' = x
       /\ metric' = fn
       /\ calls' = psb_run(x, fn).calls
       /\ result' = pairwise_similarity_bit(x, fn)

Call_euc_bit ==
  /\ op = "none"
  /\ \E x \in VectorPairs :
       /\ op' = "euc_bit"
       /\ features' = x
       /\ result' = Ok(euc_bit(x[0], x[1]))
       /\ UNCHANGED <<metric, calls>>

Call_tanimoto ==
  /\ op = "none"
  /\ \E x \in VectorPairs :
       /\ op' = "tanimoto"
       /\ features' = x
       /\ result' = Ok(tanimoto(x[0], x[1]))
       /\ UNCHANGED <<metric, calls>>

Call_bit_tanimoto ==
  /\ op = "none"
  /\ \E x \in VectorPairs :
       /\ op' = "bit_tanimoto"
       /\ features' = x
       /\ result' = bit_tanimoto(x[0], x[1])
       /\ UNCHANGED <<metric, calls>>

Call_modified_tanimoto ==
  /\ op = "none"
  /\ \E x \in VectorPairs :
       /\ op' = "modified_tanimoto"
       /\ features' = x
       /\ result' = Ok(modified_tanimoto(x[0], x[1]))
       /\ UNCHANGED <<metric, calls>>

Call_nearest_average_tanimoto ==
  /\ op = "none"
  /\ \E x \in Matrices \cup BigMatrices :
       /\ op' = "nearest_average_tanimoto"
       /\ features' = x
       /\ calls' = nat_run(x).calls
       /\ result' = nearest_average_tanimoto(x)
       /\ UNCHANGED metric

Next ==
  \/ Call_compute_distance_matrix
  \/ Call_pairwise_similarity_bit
  \/ Call_euc_bit
  \/ Call_tanimoto
  \/ Call_bit_tanimoto
  \/ Call_modified_tanimoto
  \/ Call_nearest_average_tanimoto

Spec == Init /\ [][Next]_vars

\* ============================================================ properties
N == len(features)
Rows == DOMAIN features
IsZeroRow(a) == a = [k \in DOMAIN a |-> 0]
IsOnesRow(a) == a = [k \in DOMAIN a |-> 1]
IsSymmetric(M) == \A i \in DOMAIN M : \A j \in DOMAIN M : M[i][j] = M[j][i]

\* (i, j) precedes (k, l) in lexicographic order.
LexLess(i, j, k, l) == i < k \/ (i = k /\ j < l)

\* The call log entry k is a call on rows (i, j).
CallOn(k, i, j) == calls[k].args = << <<i>>, <<j>> >>

\* ------------------------------------------------------------------ C1
\* C1 (as claimed): compute_distance_matrix with a built-in metric name
\* ("tanimoto", "modified_tanimoto") that is not a general-purpose name
\* completes without error and returns the symmetric N x N matrix
\* pairwise_similarity_bit(features, f), f the pair function of that name.
C1_BuiltinReturnsPairwiseMatrix ==
  (op = "compute_distance_matrix"
     /\ metric \in built_in_metrics /\ metric \notin sklearn_supported_metrics)
  => /\ IsOk(result)
     /\ result = pairwise_similarity_bit(features, function_dict(metric))
     /\ DOMAIN result.value = Rows
     /\ IsSymmetric(result.value)

\* ------------------------------------------------------------------ C2
\* C2: compute_distance_matrix with a metric name in neither the
\* general-purpose set nor the built-in set ends in a ValueError whose
\* message carries the name; no matrix is returned and neither the backend
\* nor a pair metric was called.
C2_UnsupportedMetricRaises ==
  (op = "compute_distance_matrix"
     /\ metric \notin sklearn_supported_metrics /\ metric \notin built_in_metrics)
  => /\ result.kind = "ValueError"
     /\ result.message = "Metric " \o metric \o " is not supported by the library."
     /\ ~IsOk(result)
     /\ calls = <<>>

C2_Witness ==
  /\ op = "compute_distance_matrix"
  /\ metric = "not_a_real_metric"
  /\ result.kind = "ValueError"
  /\ N = 3

\* ------------------------------------------------------------------ C3
\* C3: the matrix returned by pairwise_similarity_bit has M[i][i] = 1 for
\* every row i, whatever the rows hold and whatever the metric returns, and
\* the metric is never called on a pair (i, i).
C3_UnitDiagonal ==
  (op = "pairwise_similarity_bit")
  => /\ IsOk(result) =>
          /\ DOMAIN result.value = Rows
          /\ \A i \in Rows : result.value[i][i] = IntVal(1)
     /\ \A k \in 1..Len(calls) : calls[k].args[1] # calls[k].args[2]

\* A returned matrix for rows that include an all-zero row, under a metric
\* whose values leave [0, 1].
C3_Witness ==
  /\ op = "pairwise_similarity_bit"
  /\ metric = "weighted_counts"
  /\ N = 3
  /\ IsZeroRow(features[1])
  /\ IsOk(result)
  /\ result.value[0][2] = IntVal(5)
  /\ result.value[1][1] = IntVal(1)

\* ------------------------------------------------------------------ C4
\* Python's == on two returned numbers: nan equals nothing, itself included.
PyEq(u, v) == ~IsNaN(u) /\ ~IsNaN(v) /\ u = v

\* Every metric call of the run returns a number other than nan.
AllPairsFinite ==
  \A i \in Rows : \A j \in Rows :
    i < j => /\ IsOk(CallPair(metric, features[i], features[j]))
             /\ ~IsNaN(CallPair(metric, features[i], features[j]).value)

\* The call log visits index pairs (i, j), i < j, in strictly increasing
\* lexicographic order, each with the configured metric.
CallsInLexOrder ==
  /\ \A k \in 1..Len(calls) :
       /\ calls[k].fn = metric
       /\ \E i \in Rows : \E j \in Rows : i < j /\ CallOn(k, i, j)
  /\ \A k \in 1..Len(calls) : \A m \in 1..Len(calls) :
       k < m => LexLess(calls[k].args[1][1], calls[k].args[2][1],
                        calls[m].args[1][1], calls[m].args[2][1])

\* M[i][j] == M[j][i] == metric_fn(features[i], features[j]) for all i < j.
ValuesPlaced ==
  /\ IsOk(result)
  /\ \A i \in Rows : \A j \in Rows :
       i < j =>
         /\ IsOk(CallPair(metric, features[i], features[j]))
         /\ PyEq(result.value[i][j], CallPair(metric, features[i], features[j]).value)
         /\ PyEq(result.value[j][i], result.value[i][j])

\* C4 (as claimed): pairwise_similarity_bit on N rows calls metric_fn exactly
\* N(N-1)/2 times, once per pair i < j with arguments (features[i],
\* features[j]), in lexicographic order, and M[i][j] == M[j][i] ==
\* metric_fn(features[i], features[j]) for all i < j.
C4_AllPairsOnceInOrder ==
  (op = "pairwise_similarity_bit")
  => /\ 2 * Len(calls) = N * (N - 1)
     /\ CallsInLexOrder
     /\ ValuesPlaced

\* What holds of the code: the calls made are always distinct pairs in
\* lexicographic order; the statement of C4 holds on the runs in which no
\* metric call meets the zero denominator (every call returns a number other
\* than nan); a call that raises ends the loop at the first raising pair with
\* the error as the outcome; a returned nan sits at both [i][j] and [j][i].
PsbEnumeration ==
  (op = "pairwise_similarity_bit")
  => /\ CallsInLexOrder
     /\ AllPairsFinite =>
          /\ 2 * Len(calls) = N * (N - 1)
          /\ ValuesPlaced
     /\ IsOk(result) =>
          /\ 2 * Len(calls) = N * (N - 1)
          /\ \A i \in Rows : \A j \in Rows :
               i < j => /\ result.value[i][j] = CallPair(metric, features[i], features[j]).value
                        /\ result.value[j][i] = result.value[i][j]
     /\ ~IsOk(result) =>
          /\ Len(calls) >= 1
          /\ LET i == calls[Len(calls)].args[1][1]
                 j == calls[Len(calls)].args[2][1]
             IN  /\ result = CallPair(metric, features[i], features[j])
                 /\ \A k \in Rows : \A l \in Rows :
                      (k < l /\ LexLess(k, l, i, j))
                        => /\ IsOk(CallPair(metric, features[k], features[l]))
                           /\ \E m \in 1..Len(calls) : CallOn(m, k, l)

\* Four rows under a metric that tells its arguments apart: six calls in
\* row-major order ((0,3) before (1,2)), and the value at [0][2] is
\* metric(features[0], features[2]), not the swapped call.
PsbExample ==
  /\ op = "pairwise_similarity_bit"
  /\ metric = "weighted_counts"
  /\ N = 4
  /\ Len(calls) = 6
  /\ CallOn(1, 0, 1) /\ CallOn(2, 0, 2) /\ CallOn(3, 0, 3)
  /\ CallOn(4, 1, 2) /\ CallOn(5, 1, 3) /\ CallOn(6, 2, 3)
  /\ IsOk(result)
  /\ result.value[0][2] = weighted_counts(features[0], features[2])
  /\ result.value[0][2] # weighted_counts(features[2], features[0])
  /\ result.value[2][0] = result.value[0][2]

\* ------------------------------------------------------------------ C5
\* C5: for a binary vector a with at least one 1, bit_tanimoto(a, a) = 1 and
\* tanimoto(a, a) = 1.
C5_SelfSimilarityIsOne ==
  (op \in {"bit_tanimoto", "tanimoto"}
     /\ features[0] = features[1] /\ ~IsZeroRow(features[0]))
  => result = Ok(IntVal(1))

C5_Witness ==
  /\ op = "bit_tanimoto"
  /\ len(features[0]) = 3
  /\ features[0] = features[1]
  /\ count_nonzero(features[0]) = 2
  /\ result = Ok(IntVal(1))

\* ------------------------------------------------------------------ C6
\* C6: modified_tanimoto(a, b) = modified_tanimoto(b, a), and n_11, n_00,
\* t_1, t_0, p and the branch taken for t_1 and t_0 are the same for (a, b)
\* and (b, a).
C6_ModifiedTanimotoSymmetric ==
  (op = "modified_tanimoto")
  => LET a == features[0]
         b == features[1]
     IN  /\ result = Ok(modified_tanimoto(b, a))
         /\ mt_n_11(a, b) = mt_n_11(b, a)
         /\ mt_n_00(a, b) = mt_n_00(b, a)
         /\ (mt_n_00(a, b) = len(a)) = (mt_n_00(b, a) = len(b))
         /\ (mt_n_11(a, b) = len(a)) = (mt_n_11(b, a) = len(b))
         /\ mt_t_1(a, b) = mt_t_1(b, a)
         /\ mt_t_0(a, b) = mt_t_0(b, a)
         /\ mt_p(a, b) = mt_p(b, a)

\* a = [1,1,0], b = [0,1,0]: n_11 = 1, n_00 = 1, t_1 = 1/2, t_0 = 1/2,
\* p = 1/2, mt = 1/2.
C6_Witness ==
  /\ op = "modified_tanimoto"
  /\ len(features[0]) = 3
  /\ count_nonzero(features[0]) = 2
  /\ count_nonzero(features[1]) = 1
  /\ mt_n_11(features[0], features[1]) = 1
  /\ result = Ok(Frac(1, 2))

\* ------------------------------------------------------------------ C7
\* The smallest index j # i attaining the minimum of euc_bit(x[i], x[j]).
FirstNearest(x, i) ==
  CHOOSE j \in DOMAIN x \ {i} :
    \A m \in DOMAIN x \ {i} :
      /\ ~FLess(euc_bit_rows(x[i], x[m]), euc_bit_rows(x[i], x[j]))
      /\ m < j => FLess(euc_bit_rows(x[i], x[j]), euc_bit_rows(x[i], x[m]))

\* bit_tanimoto(x[i], x[j*]) for every row i.
NearestTanimoto(x) ==
  [k \in 1..len(x) |-> bit_tanimoto_rows(x[k - 1], x[FirstNearest(x, k - 1)])]

MeanOf(outs) == average([k \in DOMAIN outs |-> outs[k].value])

\* Row i has another row at euc_bit distance below the sentinel.
WithinSentinel(x, i) ==
  \E j \in DOMAIN x \ {i} : FLess(euc_bit_rows(x[i], x[j]), IntVal(Sentinel))

\* C7 (as claimed): for every binary matrix with N >= 2 rows,
\* nearest_average_tanimoto accumulates for each row i the value
\* bit_tanimoto(x[i], x[j*]), j* the smallest index j # i attaining the
\* minimum of euc_bit(x[i], x[j]), and returns their sum divided by N.
\* (Stated for the matrices on which these N values exist.)
C7_MeanOverFirstNearest ==
  (op = "nearest_average_tanimoto"
     /\ \A k \in 1..N : IsOk(NearestTanimoto(features)[k]))
  => /\ Len(calls) = N
     /\ \A k \in 1..N : CallOn(k, k - 1, FirstNearest(features, k - 1))
     /\ result = Ok(MeanOf(NearestTanimoto(features)))

\* What holds of the code: the statement of C7 on the matrices in which
\* every row has another row at distance < 100; there rows [1,0,0], [1,1,0],
\* [0,0,1] give the pairs (0,1), (1,0), (2,0) and the mean 1/3.
NatWithinSentinel ==
  (op = "nearest_average_tanimoto"
     /\ \A i \in Rows : WithinSentinel(features, i))
  => /\ \A k \in 1..Len(calls) : CallOn(k, k - 1, FirstNearest(features, k - 1))
     /\ (\A k \in 1..N : IsOk(NearestTanimoto(features)[k]))
          => /\ Len(calls) = N
             /\ result = Ok(MeanOf(NearestTanimoto(features)))
     /\ (features = [i \in 0..2 |->
                       [k \in 0..2 |-> IF (i = 0 /\ k = 0) \/ (i = 1 /\ k < 2) \/ (i = 2 /\ k = 2)
                                       THEN 1 ELSE 0]])
          => /\ CallOn(1, 0, 1) /\ CallOn(2, 1, 0) /\ CallOn(3, 2, 0)
             /\ result = Ok(Frac(1, 3))

NatExample ==
  /\ op = "nearest_average_tanimoto"
  /\ N = 3
  /\ Len(calls) = 3
  /\ CallOn(1, 0, 1) /\ CallOn(2, 1, 0) /\ CallOn(3, 2, 0)
  /\ result = Ok(Frac(1, 3))

\* ------------------------------------------------------------------ C8
\* C8: each row scan starts from short = 100 and the pair (0, 0).  If every
\* other row is at euc_bit distance >= 100 from row i, the scan makes no
\* update and the value accumulated for row i is bit_tanimoto(x[0], x[0]);
\* if some other row is at distance < 100, the selected pair is (i, j) with
\* j # i.
C8_SentinelSeed ==
  (op = "nearest_average_tanimoto")
  => /\ \A k \in 1..Len(calls) :
          /\ calls[k].fn = "bit_tanimoto"
          /\ ~WithinSentinel(features, k - 1) => CallOn(k, 0, 0)
          /\ WithinSentinel(features, k - 1)
               => \E j \in Rows \ {k - 1} : CallOn(k, k - 1, j)
     /\ IsOk(result) =>
          /\ Len(calls) = N
          /\ result.value =
               average([k \in 1..N |->
                  bit_tanimoto_rows(features[calls[k].args[1][1]],
                                    features[calls[k].args[2][1]]).value])

\* Row 1 is all zeros and 100 away from the only other row (all ones): it
\* contributes bit_tanimoto(x[0], x[0]) = 1 where its nearest pair has
\* Tanimoto 0, and the mean is 1.
C8_Witness ==
  /\ op = "nearest_average_tanimoto"
  /\ N = 2
  /\ IsOnesRow(features[0]) /\ IsZeroRow(features[1])
  /\ ~WithinSentinel(features, 1)
  /\ CallOn(2, 0, 0)
  /\ bit_tanimoto_rows(features[1], features[0]) = Ok(IntVal(0))
  /\ result = Ok(IntVal(1))

\* ------------------------------------------------------------------ C9
\* C9: the denominator a_feat + b_feat - c of bit_tanimoto is zero iff a and
\* b are both all-zero, and the call then ends in ZeroDivisionError;
\* otherwise the denominator is positive, 0 <= c <= denominator and the
\* result lies in [0, 1].  nearest_average_tanimoto ends in that error
\* whenever the neighbour selected for an all-zero row is another all-zero
\* row.
C9_ZeroDenominator ==
  /\ (op = "bit_tanimoto") =>
       LET a == features[0]
           b == features[1]
           c == intersection_count(a, b)
           den == bit_tanimoto_denominator(a, b)
       IN  /\ (den = 0) = (IsZeroRow(a) /\ IsZeroRow(b))
           /\ den = 0 => result = ZeroDivisionError
           /\ den # 0 =>
                /\ den > 0
                /\ 0 <= c /\ c <= den
                /\ IsOk(result)
                /\ IsFrac(result.value)
                /\ 0 <= result.value.num
                /\ result.value.num <= result.value.den
  /\ (op = "nearest_average_tanimoto") =>
       \A i \in Rows :
         LET st == nearest_pair(features, i)
         IN  (st.a = i /\ st.b # i
                /\ IsZeroRow(features[i]) /\ IsZeroRow(features[st.b]))
             => result = ZeroDivisionError

\* Rows 1 and 2 are all-zero, row 0 is not: row 0 is accumulated, row 1
\* selects row 2 and the run ends in the error.
C9_Witness ==
  /\ op = "nearest_average_tanimoto"
  /\ N = 3
  /\ ~IsZeroRow(features[0])
  /\ IsZeroRow(features[1]) /\ IsZeroRow(features[2])
  /\ Len(calls) = 2
  /\ CallOn(2, 1, 2)
  /\ result = ZeroDivisionError

\* ----------------------------------------------------------------- C10
\* C10: modified_tanimoto never divides by zero: t_1 divides by n - n_00
\* only when n_00 # n, t_0 by n - n_11 only when n_11 # n, and returns 1 in
\* the equality branches; 2n > 0; the result is always a finite number, and
\* for a = b = all ones it is exactly 1 with t_1 = 1, t_0 = 1, p = 1.
C10_ModifiedTanimotoDefined ==
  (op = "modified_tanimoto")
  => LET a == features[0]
         b == features[1]
         n == len(a)
         n_11 == mt_n_11(a, b)
         n_00 == mt_n_00(a, b)
     IN  /\ 2 * n > 0
         /\ IsFrac(mt_t_1(a, b)) /\ IsFrac(mt_t_0(a, b)) /\ IsFrac(mt_p(a, b))
         /\ n_00 = n => mt_t_1(a, b) = IntVal(1)
         /\ n_11 = n => mt_t_0(a, b) = IntVal(1)
         /\ n_00 # n => (n - n_00 > 0 /\ mt_t_1(a, b) = Frac(n_11, n - n_00))
         /\ n_11 # n => (n - n_11 > 0 /\ mt_t_0(a, b) = Frac(n_00, n - n_11))
         /\ IsOk(result) /\ IsFrac(result.value)
         /\ (IsOnesRow(a) /\ IsOnesRow(b)) =>
              /\ mt_t_1(a, b) = IntVal(1)
              /\ mt_t_0(a, b) = IntVal(1)
              /\ mt_p(a, b) = IntVal(1)
              /\ result = Ok(IntVal(1))

C10_Witness ==
  /\ op = "modified_tanimoto"
  /\ len(features[0]) = 3
  /\ IsOnesRow(features[0]) /\ IsOnesRow(features[1])
  /\ mt_n_11(features[0], features[1]) = 3
  /\ result = Ok(IntVal(1))
====
